---------------------------- MODULE Spec2Model ----------------------------
(***************************************************************************)
(* dummycsv: schemas of typed columns, asynchronous generation of CSV      *)
(* datasets by a Celery task, and streamed download of the generated file. *)
(*                                                                         *)
(* Text is a sequence of one-character strings.  A float is held in halves *)
(* (the integer h stands for h/2), so that 1.5 is the integer 3 and a      *)
(* float is integral iff h is even.                                        *)
(***************************************************************************)
EXTENDS Integers, Sequences, FiniteSets, TLC

\* ------------------------------------------------------------------ bounds
MaxSchemas == 1
MaxColumns == 2
MaxDatasets == 1
MaxRows == 2
MaxFieldLen == 2
MaxFields == 2
MaxCount == 2
MaxOrder == 1
DateDays == 1
MaxItems == 4
MaxBatch == 3
MaxDuplicates == 1
\* the rows written per chunk (1000 in tasks.py), scaled down so that a file
\* of MaxRows + 1 lines takes more than one chunk
CHUNK_SIZE == 2

\* ------------------------------------------------------- program constants
max_retries == 5

NAME_SID == "name"
JOB_SID == "job"
TEXT_SID == "text"
INTEGER_SID == "integer"
DATE_SID == "date"
TYPE_SIDS == {NAME_SID, JOB_SID, TEXT_SID, INTEGER_SID, DATE_SID}

\* csv module dialect defaults and quoting modes
QUOTE_MINIMAL == "QUOTE_MINIMAL"
QUOTE_ALL == "QUOTE_ALL"
DefaultQuotechar == "\""

\* ------------------------------------------------------------ CSV encoding
RECURSIVE Doubled(_, _)
\* csv.writer with doublequote=True: every quotechar inside a field is doubled
Doubled(s, q) ==
    IF s = <<>> THEN <<>>
    ELSE (IF Head(s) = q THEN <<q, q>> ELSE <<Head(s)>>) \o Doubled(Tail(s), q)

\* QUOTE_MINIMAL quotes a field holding the delimiter, the quotechar or a
\* character of the line terminator
NeedsQuote(s, delimiter, quotechar) ==
    \E i \in 1..Len(s) : s[i] \in {delimiter, quotechar, "\r", "\n"}

\* one field as csv.writer writes it; a row made of one empty field is quoted
WriterField(s, delimiter, quotechar, quoting, lone) ==
    IF \/ quoting = QUOTE_ALL
       \/ NeedsQuote(s, delimiter, quotechar)
       \/ (lone /\ s = <<>>)
    THEN <<quotechar>> \o Doubled(s, quotechar) \o <<quotechar>>
    ELSE s

RECURSIVE JoinFields(_, _)
JoinFields(fs, delimiter) ==
    IF fs = <<>> THEN <<>>
    ELSE IF Len(fs) = 1 THEN fs[1]
    ELSE fs[1] \o <<delimiter>> \o JoinFields(Tail(fs), delimiter)

\* csv.writer(...).writerow(row): the line without its terminator
writerow(row, delimiter, quotechar, quoting) ==
    JoinFields([i \in 1..Len(row) |->
                  WriterField(row[i], delimiter, quotechar, quoting, Len(row) = 1)],
               delimiter)

\* ------------------------------------------------------------ CSV decoding
\* csv.reader's state machine over the characters of one line (doublequote=True,
\* strict=False, no escapechar): st is the parser state, f the field being
\* read, out the fields of the record read so far.  The result is the parser
\* at the end of the line, before the line end is processed.
RECURSIVE ReaderRun(_, _, _, _, _, _)
ReaderRun(line, delimiter, quotechar, st, f, out) ==
    IF line = <<>>
    THEN [st |-> st, f |-> f, out |-> out]
    ELSE LET c == Head(line)
             rest == Tail(line)
         IN CASE st \in {"START_RECORD", "START_FIELD"} ->
                    IF c = quotechar
                    THEN ReaderRun(rest, delimiter, quotechar, "IN_QUOTED_FIELD", <<>>, out)
                    ELSE IF c = delimiter
                    THEN ReaderRun(rest, delimiter, quotechar, "START_FIELD", <<>>,
                                   Append(out, <<>>))
                    ELSE ReaderRun(rest, delimiter, quotechar, "IN_FIELD", <<c>>, out)
              [] st = "IN_FIELD" ->
                    IF c = delimiter
                    THEN ReaderRun(rest, delimiter, quotechar, "START_FIELD", <<>>,
                                   Append(out, f))
                    ELSE ReaderRun(rest, delimiter, quotechar, "IN_FIELD", Append(f, c), out)
              [] st = "IN_QUOTED_FIELD" ->
                    IF c = quotechar
                    THEN ReaderRun(rest, delimiter, quotechar, "QUOTE_IN_QUOTED_FIELD", f, out)
                    ELSE ReaderRun(rest, delimiter, quotechar, "IN_QUOTED_FIELD",
                                   Append(f, c), out)
              [] OTHER -> \* QUOTE_IN_QUOTED_FIELD
                    IF c = quotechar
                    THEN ReaderRun(rest, delimiter, quotechar, "IN_QUOTED_FIELD",
                                   Append(f, c), out)
                    ELSE IF c = delimiter
                    THEN ReaderRun(rest, delimiter, quotechar, "START_FIELD", <<>>,
                                   Append(out, f))
                    ELSE ReaderRun(rest, delimiter, quotechar, "IN_FIELD", Append(f, c), out)

\* the records csv.reader yields from the lines of a file.  At a line end a
\* field that is still inside quotes takes the newline and goes on with the
\* next line; at the end of the file it is saved as it stands.
RECURSIVE ReaderLines(_, _, _, _, _, _, _)
ReaderLines(lines, delimiter, quotechar, st, f, out, records) ==
    IF lines = <<>>
    THEN IF st = "IN_QUOTED_FIELD" THEN Append(records, Append(out, f)) ELSE records
    ELSE LET p == ReaderRun(Head(lines), delimiter, quotechar, st, f, out)
         IN CASE p.st = "START_RECORD" ->
                    ReaderLines(Tail(lines), delimiter, quotechar, "START_RECORD", <<>>, <<>>,
                                Append(records, p.out))
              [] p.st = "START_FIELD" ->
                    ReaderLines(Tail(lines), delimiter, quotechar, "START_RECORD", <<>>, <<>>,
                                Append(records, Append(p.out, <<>>)))
              [] p.st = "IN_QUOTED_FIELD" ->
                    ReaderLines(Tail(lines), delimiter, quotechar, "IN_QUOTED_FIELD",
                                Append(p.f, "\n"), p.out, records)
              [] OTHER ->
                    ReaderLines(Tail(lines), delimiter, quotechar, "START_RECORD", <<>>, <<>>,
                                Append(records, Append(p.out, p.f)))

\* list(csv.reader(file, delimiter=..., quotechar=...))
reader(lines, delimiter, quotechar) ==
    ReaderLines(lines, delimiter, quotechar, "START_RECORD", <<>>, <<>>, <<>>)

\* ----------------------------------------------------------------- helpers
RECURSIVE SeqsUpTo(_, _)
\* all sequences over S of length at most n
SeqsUpTo(S, n) ==
    IF n = 0 THEN {<<>>}
    ELSE LET shorter == SeqsUpTo(S, n - 1)
         IN shorter \cup {Append(s, x) : s \in shorter, x \in S}

\* all sequences over S of length exactly n
SeqsOfLen(S, n) == {s \in SeqsUpTo(S, n) : Len(s) = n}

Min(a, b) == IF a < b THEN a ELSE b

Restrict(f, S) == [x \in S |-> f[x]]

Digit(d) == CASE d = 0 -> "0" [] d = 1 -> "1" [] d = 2 -> "2" [] d = 3 -> "3"
              [] d = 4 -> "4" [] d = 5 -> "5" [] d = 6 -> "6" [] d = 7 -> "7"
              [] d = 8 -> "8" [] OTHER -> "9"

RECURSIVE NatStr(_)
NatStr(n) == IF n < 10 THEN <<Digit(n)>> ELSE Append(NatStr(n \div 10), Digit(n % 10))

\* ------------------------------------------------- sample pools (gen_data)
first_names == {<<"A">>}
last_names == {<<"B">>}
jobs_pool == {<<"j">>, <<"e", ",", "w">>}
sentences == {<<"s", ".">>}

\* ---------------------------------------------------------- value generation
\* A generated value: t is its Python type, n the integer (for a Text value
\* the number of fragments joined), s the text.
IntValue(n) == [t |-> "int", n |-> n, s |-> <<>>]
StrValue(s) == [t |-> "str", n |-> 0, s |-> s]
TextValue(k, s) == [t |-> "text", n |-> k, s |-> s]
DateValue(d) == [t |-> "date", n |-> d, s |-> <<>>]

\* column params as stored: None, or the validated {start, end} floats (halves)
NoParams == [none |-> TRUE, start |-> 0, end |-> 0]
Params(a, b) == [none |-> FALSE, start |-> a, end |-> b]

\* random.randint(a, b) = randrange(a, b + 1) on floats: a non-integral bound
\* raises ValueError, and so does an empty range
randint_raises(a, b) == a % 2 # 0 \/ b % 2 # 0 \/ a > b
randint(a, b) == (a \div 2)..(b \div 2)

RECURSIVE Repeat(_, _)
\* the texts ''.join(choice(pool) for _ in range(k)) can return
Repeat(pool, k) ==
    IF k <= 0 THEN {<<>>}
    ELSE {x \o y : x \in pool, y \in Repeat(pool, k - 1)}

\* whether <Type>.generate_value(params) raises (AssertionError on empty
\* params, ValueError from randint)
generate_value_raises(sid, params) ==
    /\ sid \in {TEXT_SID, INTEGER_SID}
    /\ \/ params.none
       \/ randint_raises(params.start, params.end)

\* the values <Type>.generate_value(params) can return
generate_value(sid, params) ==
    CASE sid = NAME_SID ->
            {StrValue(f \o <<" ">> \o l) : f \in first_names, l \in last_names}
      [] sid = JOB_SID -> {StrValue(j) : j \in jobs_pool}
      [] sid = TEXT_SID ->
            UNION {{TextValue(k, x) : x \in Repeat(sentences, k)} :
                      k \in randint(params.start, params.end)}
      [] sid = INTEGER_SID -> {IntValue(n) : n \in randint(params.start, params.end)}
      [] OTHER -> {DateValue(d) : d \in 0..DateDays}

\* str(value), as csv.writer applies it to a field
str(v) ==
    CASE v.t = "int" -> IF v.n < 0 THEN <<"-">> \o NatStr(0 - v.n) ELSE NatStr(v.n)
      [] v.t = "date" -> <<"1", "9", "7", "0", "-", "0", "1", "-", "0">> \o NatStr(v.n + 1)
      [] OTHER -> v.s

\* ------------------------------------------------------ DataSchema.generate
\* cols: the evaluated queryset, a sequence of column records
header(cols) == [i \in 1..Len(cols) |-> StrValue(cols[i].name)]

row_raises(cols) ==
    \E i \in 1..Len(cols) : generate_value_raises(cols[i].type, cols[i].params)

RECURSIVE data_rows(_)
\* the rows [proxy.generate_value(params) for proxy, params in proxies] can be
data_rows(cols) ==
    IF cols = <<>> THEN {<<>>}
    ELSE {<<v>> \o r : v \in generate_value(cols[1].type, cols[1].params),
                       r \in data_rows(Tail(cols))}

\* the sequences of column ids self.columns.order_by('order') can return:
\* ascending order, ties in any order
IsOrdered(cs, table) ==
    \A i \in 1..(Len(cs) - 1) : table[cs[i]].order <= table[cs[i + 1]].order

order_by_order(ids, table) ==
    {cs \in SeqsOfLen(ids, Cardinality(ids)) :
        /\ \A i, j \in 1..Len(cs) : i # j => cs[i] # cs[j]
        /\ IsOrdered(cs, table)}

\* ----------------------------------------------- ColumnSerializer.validate
params_required_types == {INTEGER_SID, TEXT_SID}

\* A JSON value sent for start or end: none (absent or null), num (a number),
\* numstr (a string float() parses), str (any other string), list.  h is the
\* number, in halves.
RawValue(t, h) == [t |-> t, h |-> h]

\* float(value) raises TypeError or ValueError
float_raises(v) == v.t \notin {"num", "numstr"}
float(v) == v.h

\* params as sent: none (absent or null), list (not a dictionary), or dict
RawNone == [t |-> "none", start |-> RawValue("none", 0), end |-> RawValue("none", 0)]
RawList == [t |-> "list", start |-> RawValue("none", 0), end |-> RawValue("none", 0)]
RawDict(a, b) == [t |-> "dict", start |-> a, end |-> b]

Invalid == [ok |-> FALSE, params |-> NoParams]
Valid(p) == [ok |-> TRUE, params |-> p]

\* validate with the range test start > end in place of start >= end
validate_strict(attrs) ==
    LET params == attrs.params
        required == attrs.type \in params_required_types
    IN IF params.t = "none" /\ required THEN Invalid
       ELSE IF ~required THEN Valid(NoParams)
       ELSE IF params.t # "dict" THEN Invalid
       ELSE IF \E value \in {params.start, params.end} :
                   value.t = "none" \/ float_raises(value)
       THEN Invalid
       ELSE IF float(params.start) > float(params.end) THEN Invalid
       ELSE Valid(Params(float(params.start), float(params.end)))

validate(attrs) ==
    LET params == attrs.params
        required == attrs.type \in params_required_types
    IN IF params.t = "none" /\ required THEN Invalid
       ELSE IF ~required THEN Valid(NoParams)
       ELSE IF params.t # "dict" THEN Invalid
       ELSE IF \E value \in {params.start, params.end} :
                   value.t = "none" \/ float_raises(value)
       THEN Invalid
       ELSE IF float(params.start) >= float(params.end) THEN Invalid
       ELSE Valid(Params(float(params.start), float(params.end)))

\* DataSchemaSerializer: columns is required and validate_columns refuses an
\* empty list; every column goes through ColumnSerializer.validate
schema_is_valid(data) ==
    /\ Len(data.columns) > 0
    /\ \A i \in 1..Len(data.columns) : validate(data.columns[i]).ok

\* ------------------------------------------------------------------- state
VARIABLES
    schemas,        \* table schemas: id -> [user, separator, string_character]
    columns,        \* table columns: id -> [schema, name, order, type, params]
    datasets,       \* table datasets: id -> [rows, processed, schema]
    jobs,           \* the generate_file task of each dataset id
    files,          \* MEDIA_ROOT: dataset id -> lines of <id>.csv
    observed,       \* the operations whose requests are recorded
    request,        \* the recorded request handled last
    response,       \* its response
    nextSchemaId, nextColumnId, nextDatasetId

\* history: the schema of each dataset as the store held it at POST /sets/
\* (kept when create_dataset is observed), and the number of task messages
\* delivered a second time
VARIABLES schemaAtCreate, duplicates

\* CSV round trip of one row (writer of generate_file, reader of retrieve)
VARIABLES csvRow, csvSep, csvQuote, csvLine, csvBack, csvPc

\* one run of DataSchema.generate
VARIABLES genTable, genCount, genCols, genOut, genPc

\* one run of the chunked write loop of generate_file: the rows the iterator
\* emits and how it ends, the batch size, the rows drawn so far, the rows
\* written, the batches handed to writerows
VARIABLES chRows, chEnd, chSize, chPos, chFile, chBatches, chPc

dbVars == <<schemas, columns, datasets, nextSchemaId, nextColumnId, nextDatasetId>>
histVars == <<schemaAtCreate, duplicates>>
sysVars == <<dbVars, jobs, files, observed, request, response, histVars>>
csvVars == <<csvRow, csvSep, csvQuote, csvLine, csvBack, csvPc>>
genVars == <<genTable, genCount, genCols, genOut, genPc>>
chunkVars == <<chRows, chEnd, chSize, chPos, chFile, chBatches, chPc>>
vars == <<sysVars, csvVars, genVars, chunkVars>>

\* --------------------------------------------------------- request inputs
Users == {"u1", "u2"}
Names == {<<"n">>, <<"m">>}
Separators == {<<",">>, <<";">>, <<":", ":">>}
Quotes == {"\"", "'"}

NoData == [none |-> TRUE]

Req(op, user, schema, column, dataset, data) ==
    [op |-> op, user |-> user, schema |-> schema, column |-> column,
     dataset |-> dataset, data |-> data]

Resp(status, processed, body) ==
    [status |-> status, processed |-> processed, body |-> body]

\* request and response record the last request whose operation is observed
Record(req, resp) ==
    /\ UNCHANGED observed
    /\ IF req.op \in observed
       THEN request' = req /\ response' = resp
       ELSE UNCHANGED <<request, response>>

\* ------------------------------------------------------ DataSchemaViewSet
\* get_object() on the unfiltered queryset: any user's schema is found
any_schema(user, pk) == pk \in DOMAIN schemas

\* get_object() on get_queryset(): the schema exists and is the requester's
own_schema(user, pk) == pk \in DOMAIN schemas /\ schemas[pk].user = user

\* get_object_or_404(Column, schema_id=pk, id=column_id)
column_of(pk, column_id) == column_id \in DOMAIN columns /\ columns[column_id].schema = pk

\* the row a validated column payload is saved as
column_row(schema, attrs) ==
    [schema |-> schema, name |-> attrs.name, order |-> attrs.order,
     type |-> attrs.type, params |-> validate(attrs).params]

\* POST /schemas/ : DataSchemaSerializer.create, atomic
CreateSchema(user, data) ==
    /\ UNCHANGED <<datasets, nextDatasetId, jobs, files, histVars, csvVars, genVars, chunkVars>>
    /\ IF schema_is_valid(data)
       THEN /\ nextSchemaId <= MaxSchemas
            /\ nextColumnId + Len(data.columns) - 1 <= MaxColumns
            /\ schemas' = schemas @@ (nextSchemaId :>
                   [user |-> user, separator |-> data.separator,
                    string_character |-> data.string_character])
            /\ columns' = columns @@
                   [id \in nextColumnId..(nextColumnId + Len(data.columns) - 1) |->
                       column_row(nextSchemaId, data.columns[id - nextColumnId + 1])]
            /\ nextSchemaId' = nextSchemaId + 1
            /\ nextColumnId' = nextColumnId + Len(data.columns)
            /\ Record(Req("create_schema", user, 0, 0, 0, data), Resp(201, FALSE, <<>>))
       ELSE /\ Record(Req("create_schema", user, 0, 0, 0, data), Resp(400, FALSE, <<>>))
            /\ UNCHANGED <<schemas, columns, nextSchemaId, nextColumnId>>

\* PUT/PATCH /schemas/{pk}/ : DataSchemaNoColumnsSerializer, no columns
UpdateSchema(user, pk, separator, string_character) ==
    /\ UNCHANGED <<columns, datasets, nextSchemaId, nextColumnId, nextDatasetId,
                   jobs, files, histVars, csvVars, genVars, chunkVars>>
    /\ IF own_schema(user, pk)
       THEN /\ schemas' = [schemas EXCEPT ![pk].separator = separator,
                                          ![pk].string_character = string_character]
            /\ Record(Req("update_schema", user, pk, 0, 0, [separator |-> separator, string_character |-> string_character]), Resp(200, FALSE, <<>>))
       ELSE /\ Record(Req("update_schema", user, pk, 0, 0, [separator |-> separator, string_character |-> string_character]), Resp(404, FALSE, <<>>))
            /\ UNCHANGED schemas

\* DELETE /schemas/{pk}/ : columns and datasets go with it (on_delete=CASCADE),
\* the files stay in MEDIA_ROOT
DestroySchema(user, pk) ==
    /\ UNCHANGED <<nextSchemaId, nextColumnId, nextDatasetId, jobs, files, histVars, csvVars, genVars, chunkVars>>
    /\ IF own_schema(user, pk)
       THEN /\ schemas' = Restrict(schemas, DOMAIN schemas \ {pk})
            /\ columns' = Restrict(columns, {c \in DOMAIN columns : columns[c].schema # pk})
            /\ datasets' = Restrict(datasets, {d \in DOMAIN datasets : datasets[d].schema # pk})
            /\ Record(Req("destroy_schema", user, pk, 0, 0, NoData), Resp(204, FALSE, <<>>))
       ELSE /\ Record(Req("destroy_schema", user, pk, 0, 0, NoData), Resp(404, FALSE, <<>>))
            /\ UNCHANGED <<schemas, columns, datasets>>

\* POST /schemas/{pk}/columns/
add_column(user, pk, data) ==
    /\ UNCHANGED <<schemas, datasets, nextSchemaId, nextDatasetId, jobs, files,
                   histVars, csvVars, genVars, chunkVars>>
    /\ IF ~own_schema(user, pk)
       THEN /\ Record(Req("add_column", user, pk, 0, 0, data), Resp(404, FALSE, <<>>))
            /\ UNCHANGED <<columns, nextColumnId>>
       ELSE IF ~validate(data).ok
       THEN /\ Record(Req("add_column", user, pk, 0, 0, data), Resp(400, FALSE, <<>>))
            /\ UNCHANGED <<columns, nextColumnId>>
       ELSE /\ nextColumnId <= MaxColumns
            /\ columns' = columns @@ (nextColumnId :> column_row(pk, data))
            /\ nextColumnId' = nextColumnId + 1
            /\ Record(Req("add_column", user, pk, 0, 0, data), Resp(200, FALSE, <<>>))

\* PUT /schemas/{pk}/columns/{column_id}/
update_column(user, pk, column_id, data) ==
    /\ UNCHANGED <<schemas, datasets, nextSchemaId, nextColumnId, nextDatasetId,
                   jobs, files, histVars, csvVars, genVars, chunkVars>>
    /\ IF ~own_schema(user, pk) \/ ~column_of(pk, column_id)
       THEN /\ Record(Req("update_column", user, pk, column_id, 0, data), Resp(404, FALSE, <<>>))
            /\ UNCHANGED columns
       ELSE IF ~validate(data).ok
       THEN /\ Record(Req("update_column", user, pk, column_id, 0, data), Resp(400, FALSE, <<>>))
            /\ UNCHANGED columns
       ELSE /\ columns' = [columns EXCEPT ![column_id] = column_row(pk, data)]
            /\ Record(Req("update_column", user, pk, column_id, 0, data), Resp(200, FALSE, <<>>))

\* DELETE /schemas/{pk}/columns/{column_id}/
delete_column(user, pk, column_id) ==
    /\ UNCHANGED <<schemas, datasets, nextSchemaId, nextColumnId, nextDatasetId,
                   jobs, files, histVars, csvVars, genVars, chunkVars>>
    /\ IF ~own_schema(user, pk) \/ ~column_of(pk, column_id)
       THEN /\ Record(Req("delete_column", user, pk, column_id, 0, NoData), Resp(404, FALSE, <<>>))
            /\ UNCHANGED columns
       ELSE /\ columns' = Restrict(columns, DOMAIN columns \ {column_id})
            /\ Record(Req("delete_column", user, pk, column_id, 0, NoData), Resp(204, FALSE, <<>>))


\* --------------------------------------------------------- DataSetViewSet
\* the task of one dataset id: status is queued, running, success (ran to the
\* end), aborted (returned at DoesNotExist) or failed (retries exhausted);
\* while it runs, pc is its place and the other fields are its locals:
\* the dataset and its schema as loaded, the generator's evaluated columns and
\* the number of rows the generator has yielded.
Job(status, retries, attempts) ==
    [status |-> status, retries |-> retries, attempts |-> attempts, pc |-> "-",
     rows |-> 0, schema |-> 0, separator |-> <<>>, string_character |-> "",
     started |-> FALSE, cols |-> <<>>, emitted |-> 0]

\* a schema as the store holds it: its row and the rows of its columns
stored_schema(schema) ==
    [separator |-> schemas[schema].separator,
     string_character |-> schemas[schema].string_character,
     columns |-> {columns[c] : c \in {x \in DOMAIN columns : columns[x].schema = schema}}]

\* POST /sets/ : create the dataset, then generate_file.delay(dataset_id)
CreateDataset(user, schema, rows) ==
    /\ UNCHANGED <<schemas, columns, nextSchemaId, nextColumnId, files, duplicates,
                   csvVars, genVars, chunkVars>>
    /\ IF schema \in DOMAIN schemas
       THEN /\ nextDatasetId <= MaxDatasets
            /\ datasets' = datasets @@ (nextDatasetId :>
                   [rows |-> rows, processed |-> FALSE, schema |-> schema])
            /\ jobs' = jobs @@ (nextDatasetId :> Job("queued", 0, 0))
            /\ nextDatasetId' = nextDatasetId + 1
            /\ schemaAtCreate' = (IF "create_dataset" \in observed
                                  THEN schemaAtCreate @@ (nextDatasetId :> stored_schema(schema))
                                  ELSE schemaAtCreate)
            /\ Record(Req("create_dataset", user, schema, 0, 0, [rows |-> rows]), Resp(201, FALSE, <<>>))
       ELSE /\ Record(Req("create_dataset", user, schema, 0, 0, [rows |-> rows]), Resp(400, FALSE, <<>>))
            /\ UNCHANGED <<datasets, jobs, nextDatasetId, schemaAtCreate>>

\* chunked_read: every row of the reader written again by the response's writer
chunked_read(lines, delimiter) ==
    LET rows == reader(lines, delimiter, DefaultQuotechar)
    IN [i \in 1..Len(rows) |-> writerow(rows[i], delimiter, DefaultQuotechar, QUOTE_MINIMAL)]

\* GET /sets/{id}/ : not found without the file, else the file streamed; a
\* separator csv refuses ends the request in a server error
retrieve(user, id) ==
    /\ UNCHANGED <<dbVars, jobs, files, histVars, csvVars, genVars, chunkVars>>
    /\ IF id \notin DOMAIN datasets \/ id \notin DOMAIN files
       THEN Record(Req("retrieve", user, 0, 0, id, NoData), Resp(404, FALSE, <<>>))
       ELSE LET dataset == datasets[id]
                separator == schemas[dataset.schema].separator
            IN IF Len(separator) # 1
               THEN Record(Req("retrieve", user, 0, 0, id, NoData),
                           Resp(500, dataset.processed, <<>>))
               ELSE Record(Req("retrieve", user, 0, 0, id, NoData),
                           Resp(200, dataset.processed,
                                chunked_read(files[id], separator[1])))

\* ------------------------------------------------------------ generate_file
\* autoretry_for=(Exception,), max_retries=5: Task.retry() sends the task
\* again with retries + 1 unless that exceeds max_retries, and then the
\* exception stands and the task has failed
\* autoretry giving up one retry late
autoretry_late(job) ==
    IF job.retries > max_retries
    THEN Job("failed", job.retries, job.attempts)
    ELSE Job("queued", job.retries + 1, job.attempts)

autoretry(job) ==
    IF job.retries + 1 > max_retries
    THEN Job("failed", job.retries, job.attempts)
    ELSE Job("queued", job.retries + 1, job.attempts)

\* DoesNotExist left to autoretry_for like any other exception
on_missing_retried(job) == autoretry(job)

\* except DoesNotExist: log a warning and return
on_missing(job) == Job("aborted", job.retries, job.attempts)

\* DataSet.objects.select_related('schema').get(id=dataset_id)
TaskStart(id) ==
    /\ id \in DOMAIN jobs
    /\ jobs[id].status = "queued"
    /\ LET job == [jobs[id] EXCEPT !.attempts = @ + 1]
       IN IF id \notin DOMAIN datasets
          THEN jobs' = [jobs EXCEPT ![id] = on_missing(job)]
          ELSE jobs' = [jobs EXCEPT ![id] =
                   [job EXCEPT !.status = "running", !.pc = "open",
                               !.rows = datasets[id].rows,
                               !.schema = datasets[id].schema,
                               !.separator = schemas[datasets[id].schema].separator,
                               !.string_character =
                                   schemas[datasets[id].schema].string_character]]
    /\ UNCHANGED <<dbVars, files, observed, request, response, histVars, csvVars, genVars, chunkVars>>

\* open(file_path, 'w') creates or empties the file; csv.writer() then
\* raises TypeError unless the delimiter is one character
TaskOpen(id) ==
    /\ id \in DOMAIN jobs
    /\ jobs[id].status = "running" /\ jobs[id].pc = "open"
    /\ files' = [d \in DOMAIN files \cup {id} |-> IF d = id THEN <<>> ELSE files[d]]
    /\ IF Len(jobs[id].separator) # 1
       THEN jobs' = [jobs EXCEPT ![id] = autoretry(jobs[id])]
       ELSE jobs' = [jobs EXCEPT ![id].pc = "write"]
    /\ UNCHANGED <<dbVars, observed, request, response, histVars, csvVars, genVars, chunkVars>>

\* the line writer.writerow(row) writes for a generated row
encode_row(row, separator, string_character) ==
    writerow([i \in 1..Len(row) |-> str(row[i])], separator[1], string_character, QUOTE_ALL)

\* the columns as they were when a dataset of the schema was created
columns_at_create(schema) ==
    LET ds == {d \in DOMAIN schemaAtCreate \cap DOMAIN datasets : datasets[d].schema = schema}
    IN IF ds = {} THEN {<<>>}
       ELSE UNION {{cs \in SeqsOfLen(schemaAtCreate[d].columns,
                                     Cardinality(schemaAtCreate[d].columns)) :
                       /\ \A i, j \in 1..Len(cs) : i # j => cs[i] # cs[j]
                       /\ \A i \in 1..(Len(cs) - 1) : cs[i].order <= cs[i + 1].order} :
                   d \in ds}

\* the columns the generator finds on its first next()
evaluated_columns(schema) ==
    {[i \in 1..Len(cs) |-> columns[cs[i]]] :
        cs \in order_by_order({c \in DOMAIN columns : columns[c].schema = schema}, columns)}

\* one turn of the loop `for first in iterator`: the loop ends when the
\* generator is exhausted; else up to CHUNK_SIZE rows are drawn and written,
\* and an exception while they are drawn leaves the chunk unwritten
TaskWrite(id) ==
    /\ id \in DOMAIN jobs
    /\ jobs[id].status = "running" /\ jobs[id].pc = "write"
    /\ UNCHANGED <<dbVars, observed, request, response, histVars, csvVars, genVars, chunkVars>>
    /\ LET job == jobs[id]
           remaining == job.rows + 1 - job.emitted
           k == Min(CHUNK_SIZE, remaining)
           nData == IF job.started THEN k ELSE k - 1
       IN IF remaining = 0
          THEN /\ jobs' = [jobs EXCEPT ![id].pc = "save"]
               /\ UNCHANGED files
          ELSE \E cols \in (IF job.started THEN {job.cols} ELSE evaluated_columns(job.schema)) :
                  IF nData > 0 /\ row_raises(cols)
                  THEN /\ jobs' = [jobs EXCEPT ![id] = autoretry(job)]
                       /\ UNCHANGED files
                  ELSE \E chunk \in SeqsOfLen(data_rows(cols), nData) :
                          LET rows == (IF job.started THEN <<>> ELSE <<header(cols)>>) \o chunk
                              lines == [i \in 1..Len(rows) |->
                                          encode_row(rows[i], job.separator,
                                                     job.string_character)]
                          IN /\ files' = [files EXCEPT ![id] = @ \o lines]
                             /\ jobs' = [jobs EXCEPT ![id].started = TRUE,
                                                     ![id].cols = cols,
                                                     ![id].emitted = @ + k]

\* dataset.save() without update_fields: every field of the loaded instance
save_all_fields(row, job) == [rows |-> job.rows, processed |-> TRUE, schema |-> job.schema]

\* dataset.save(update_fields=['processed']): the row as the UPDATE leaves it
save_update_fields(row, job) == [row EXCEPT !.processed = TRUE]

\* dataset.processed = True; dataset.save(update_fields=['processed']), which
\* raises DatabaseError when the UPDATE finds no row
TaskSave(id) ==
    /\ id \in DOMAIN jobs
    /\ jobs[id].status = "running" /\ jobs[id].pc = "save"
    /\ IF id \in DOMAIN datasets
       THEN /\ datasets' = [datasets EXCEPT ![id] = save_update_fields(datasets[id], jobs[id])]
            /\ jobs' = [jobs EXCEPT ![id] = Job("success", jobs[id].retries, jobs[id].attempts)]
       ELSE /\ jobs' = [jobs EXCEPT ![id] = autoretry(jobs[id])]
            /\ UNCHANGED datasets
    /\ UNCHANGED <<schemas, columns, nextSchemaId, nextColumnId, nextDatasetId,
                   files, observed, request, response, histVars, csvVars, genVars, chunkVars>>

\* the message generate_file(dataset_id) delivered once more (at-least-once
\* delivery of the broker, or a second delay() for the id) after the first
\* task is over: the task runs again from the start
DuplicateDelivery(id) ==
    /\ id \in DOMAIN jobs
    /\ jobs[id].status \in {"success", "failed", "aborted"}
    /\ duplicates < MaxDuplicates
    /\ duplicates' = duplicates + 1
    /\ jobs' = [jobs EXCEPT ![id] = Job("queued", 0, jobs[id].attempts)]
    /\ UNCHANGED <<dbVars, files, observed, request, response, schemaAtCreate,
                   csvVars, genVars, chunkVars>>

\* the admin site's change form of a dataset (admin.ModelAdmin): rows edited
AdminChangeRows(id, rows) ==
    /\ id \in DOMAIN datasets
    /\ datasets[id].rows # rows
    /\ datasets' = [datasets EXCEPT ![id].rows = rows]
    /\ UNCHANGED <<schemas, columns, nextSchemaId, nextColumnId, nextDatasetId,
                   jobs, files, observed, request, response, histVars, csvVars, genVars, chunkVars>>

\* ------------------------------------------------------------ initial state
NoRequest == Req("none", "", 0, 0, 0, NoData)

SysInit(ops) ==
    /\ schemas = <<>>
    /\ columns = <<>>
    /\ datasets = <<>>
    /\ jobs = <<>>
    /\ files = <<>>
    /\ observed = ops
    /\ schemaAtCreate = <<>>
    /\ duplicates = 0
    /\ request = NoRequest
    /\ response = Resp(0, FALSE, <<>>)
    /\ nextSchemaId = 1
    /\ nextColumnId = 1
    /\ nextDatasetId = 1

CsvIdle ==
    /\ csvRow = <<>> /\ csvSep = "," /\ csvQuote = "\""
    /\ csvLine = <<>> /\ csvBack = <<>> /\ csvPc = "idle"

GenIdle ==
    /\ genTable = <<>> /\ genCount = 0 /\ genCols = <<>>
    /\ genOut = <<>> /\ genPc = "idle"

ChunkIdle ==
    /\ chRows = <<>> /\ chEnd = "stop" /\ chSize = 1 /\ chPos = 0
    /\ chFile = <<>> /\ chBatches = <<>> /\ chPc = "idle"

Init == SysInit({"retrieve"}) /\ CsvIdle /\ GenIdle /\ ChunkIdle

\* ------------------------------------------- the system: API and task worker
Num(h) == RawValue("num", h)

SysColumns ==
    {[name |-> <<"n">>, order |-> 0, type |-> INTEGER_SID, params |-> RawDict(Num(2), Num(4))],
     [name |-> <<"n">>, order |-> 1, type |-> INTEGER_SID, params |-> RawDict(Num(2), Num(3))],
     [name |-> <<"m">>, order |-> 0, type |-> JOB_SID, params |-> RawNone]}

SysSchemas ==
    [separator : {<<",">>, <<":", ":">>}, string_character : Quotes,
     columns : {<<c>> : c \in SysColumns}]

SysUsers == {"u1"}
SchemaIds == 1..MaxSchemas
ColumnIds == 1..MaxColumns
DatasetIds == 1..MaxDatasets

ApiStep ==
    \/ \E u \in SysUsers, d \in SysSchemas : CreateSchema(u, d)
    \/ \E u \in SysUsers, pk \in SchemaIds : DestroySchema(u, pk)
    \/ \E u \in SysUsers, pk \in SchemaIds, n \in 0..MaxRows : CreateDataset(u, pk, n)
    \/ \E u \in SysUsers, id \in DatasetIds : retrieve(u, id)

TaskStep ==
    \E id \in DatasetIds : TaskStart(id) \/ TaskOpen(id) \/ TaskWrite(id) \/ TaskSave(id)

\* schemas are created and destroyed but not edited
NextPipeline == ApiStep \/ TaskStep

SpecPipeline == Init /\ [][NextPipeline]_vars

EditStep ==
    \E u \in SysUsers, pk \in SchemaIds, sep \in {<<",">>, <<":", ":">>}, q \in Quotes :
        UpdateSchema(u, pk, sep, q)

Next == ApiStep \/ TaskStep \/ EditStep

Spec == Init /\ [][Next]_vars

\* the system with the admin site's edits of a dataset's rows
AdminStep == \E id \in DatasetIds, n \in 0..MaxRows : AdminChangeRows(id, n)

NextAdmin == Next \/ AdminStep

SpecAdmin == Init /\ [][NextAdmin]_vars

\* ------------------------------------------ the schema and column routes
Str == RawValue("str", 0)
List == RawValue("list", 0)
Absent == RawValue("none", 0)

\* params as a client may send them: absent, not a dictionary, a bound
\* absent, a bound that is no number, start = end, start > end, and valid
ApiRawParams ==
    {RawNone, RawList,
     RawDict(Absent, Num(3)), RawDict(Num(2), Absent),
     RawDict(Str, Num(3)), RawDict(Num(2), List),
     RawDict(Num(3), Num(3)), RawDict(Num(3), Num(2)),
     RawDict(Num(2), Num(3)), RawDict(RawValue("numstr", 2), Num(4))}

ApiColumns ==
    [name : {<<"n">>}, order : {0}, type : {INTEGER_SID, TEXT_SID}, params : ApiRawParams]
    \cup [name : {<<"n">>}, order : {1}, type : {NAME_SID, JOB_SID, DATE_SID},
          params : {RawNone, RawDict(Num(2), Num(3))}]

GoodColumn == [name |-> <<"n">>, order |-> 0, type |-> NAME_SID, params |-> RawNone]

ApiSchemas ==
    [separator : {<<",">>}, string_character : {DefaultQuotechar},
     columns : {<<>>} \cup {<<c>> : c \in ApiColumns} \cup {<<GoodColumn, c>> : c \in ApiColumns}]

ColumnOps ==
    {"create_schema", "destroy_schema", "add_column", "update_column", "delete_column"}

ApiInit == SysInit(ColumnOps) /\ CsvIdle /\ GenIdle /\ ChunkIdle

ApiNext ==
    \/ \E u \in Users, d \in ApiSchemas : CreateSchema(u, d)
    \/ \E u \in Users, pk \in SchemaIds : DestroySchema(u, pk)
    \/ \E u \in Users, pk \in SchemaIds, d \in ApiColumns : add_column(u, pk, d)
    \/ \E u \in Users, pk \in SchemaIds, c \in ColumnIds, d \in ApiColumns :
          update_column(u, pk, c, d)
    \/ \E u \in Users, pk \in SchemaIds, c \in ColumnIds : delete_column(u, pk, c)

SpecApi == ApiInit /\ [][ApiNext]_vars

\* ------------------------------------------- one run of DataSchema.generate
GenRawParams == {RawNone} \cup {RawDict(Num(a), Num(b)) : a, b \in {2, 3, 4}}

GenColumns == [name : Names, order : 0..MaxOrder, type : TYPE_SIDS, params : GenRawParams]

\* the column rows validation lets into the table
StoredColumns == {column_row(1, a) : a \in {x \in GenColumns : validate(x).ok}}

GenInit ==
    /\ \E n \in 0..MaxColumns : genTable \in [1..n -> StoredColumns]
    /\ genCount \in 0..MaxCount
    /\ genCols = <<>>
    /\ genOut = <<>>
    /\ genPc = "created"
    /\ SysInit({}) /\ CsvIdle /\ ChunkIdle

\* the first next(): the queryset is evaluated, the header is yielded
GenHeader ==
    /\ genPc = "created"
    /\ \E cs \in order_by_order(DOMAIN genTable, genTable) :
          /\ genCols' = [i \in 1..Len(cs) |-> genTable[cs[i]]]
          /\ genOut' = <<header(genCols')>>
    /\ genPc' = "yielded"
    /\ UNCHANGED <<genTable, genCount, sysVars, csvVars, chunkVars>>

\* a later next() inside range(count): a data row is yielded, or
\* generate_value raises
GenRow ==
    /\ genPc = "yielded"
    /\ Len(genOut) - 1 < genCount
    /\ IF row_raises(genCols)
       THEN genPc' = "raised" /\ UNCHANGED genOut
       ELSE /\ \E r \in data_rows(genCols) : genOut' = Append(genOut, r)
            /\ UNCHANGED genPc
    /\ UNCHANGED <<genTable, genCount, genCols, sysVars, csvVars, chunkVars>>

\* next() after range(count) has run out: StopIteration
GenStop ==
    /\ genPc = "yielded"
    /\ Len(genOut) - 1 = genCount
    /\ genPc' = "exhausted"
    /\ UNCHANGED <<genTable, genCount, genCols, genOut, sysVars, csvVars, chunkVars>>

GenNext == GenHeader \/ GenRow \/ GenStop

SpecGen == GenInit /\ [][GenNext]_vars

\* ---------------------------------------------- CSV round trip of one row
Chars == {"a", ",", ";", "\"", "'"}

CsvInit ==
    /\ csvRow \in SeqsUpTo(SeqsUpTo(Chars, MaxFieldLen), MaxFields)
    /\ csvSep \in {",", ";"}
    /\ csvQuote \in Quotes
    /\ csvLine = <<>>
    /\ csvBack = <<>>
    /\ csvPc = "encode"
    /\ SysInit({}) /\ GenIdle /\ ChunkIdle

CsvEncode ==
    /\ csvPc = "encode"
    /\ csvLine' = writerow(csvRow, csvSep, csvQuote, QUOTE_ALL)
    /\ csvPc' = "decode"
    /\ UNCHANGED <<csvRow, csvSep, csvQuote, csvBack, sysVars, genVars, chunkVars>>

CsvDecode ==
    /\ csvPc = "decode"
    /\ csvBack' = reader(<<csvLine>>, csvSep, DefaultQuotechar)
    /\ csvPc' = "done"
    /\ UNCHANGED <<csvRow, csvSep, csvQuote, csvLine, sysVars, genVars, chunkVars>>

CsvNext == CsvEncode \/ CsvDecode

SpecCsv == CsvInit /\ [][CsvNext]_vars

\* ----------------------------------- the chunked write loop of generate_file
ChunkRow == {<<<<"a">>>>, <<<<"b">>>>}

\* the rows one turn of the loop takes from the iterator at position pos:
\* `first` and the up to size - 1 rows islice finds after it
consumed(rows, pos, size) == Min(size, Len(rows) - pos)

\* list(chain([first], islice(iterator, size - 1)))
no_first_chunk(rows, pos, size) == SubSeq(rows, pos + 2, pos + consumed(rows, pos, size))

chunk(rows, pos, size) == SubSeq(rows, pos + 1, pos + consumed(rows, pos, size))

ChunkInit ==
    /\ chRows \in SeqsUpTo(ChunkRow, MaxItems)
    /\ chEnd \in {"stop", "raise"}
    /\ chSize \in 1..MaxBatch
    /\ chPos = 0
    /\ chFile = <<>>
    /\ chBatches = <<>>
    /\ chPc = "loop"
    /\ SysInit({}) /\ CsvIdle /\ GenIdle

\* one turn of `for first in iterator`: next() ends the loop (StopIteration)
\* or raises; else the chunk is drawn, and an exception met by islice before
\* the chunk is full leaves the chunk unwritten; else writerows(chunk)
ChunkTurn ==
    /\ chPc = "loop"
    /\ UNCHANGED <<chRows, chEnd, chSize, sysVars, csvVars, genVars>>
    /\ IF chPos = Len(chRows)
       THEN /\ chPc' = (IF chEnd = "stop" THEN "done" ELSE "raised")
            /\ UNCHANGED <<chPos, chFile, chBatches>>
       ELSE IF consumed(chRows, chPos, chSize) < chSize /\ chEnd = "raise"
       THEN /\ chPc' = "raised"
            /\ chPos' = Len(chRows)
            /\ UNCHANGED <<chFile, chBatches>>
       ELSE /\ chFile' = chFile \o chunk(chRows, chPos, chSize)
            /\ chBatches' = Append(chBatches, chunk(chRows, chPos, chSize))
            /\ chPos' = chPos + consumed(chRows, chPos, chSize)
            /\ UNCHANGED chPc

ChunkNext == ChunkTurn

SpecChunk == ChunkInit /\ [][ChunkNext]_vars

\* -------------------- a schema edited between POST /sets/ and the task's run
EditSchemas ==
    [separator : {<<",">>}, string_character : {DefaultQuotechar},
     columns : {<<[name |-> <<"m">>, order |-> 1, type |-> JOB_SID, params |-> RawNone]>>}]

EditColumns ==
    {[name |-> <<"n">>, order |-> 0, type |-> NAME_SID, params |-> RawNone],
     [name |-> <<"m">>, order |-> 1, type |-> INTEGER_SID, params |-> RawDict(Num(2), Num(4))]}

EditInit == SysInit({"create_dataset"}) /\ CsvIdle /\ GenIdle /\ ChunkIdle

EditNext ==
    \/ \E d \in EditSchemas : CreateSchema("u1", d)
    \/ \E pk \in SchemaIds : CreateDataset("u1", pk, 1)
    \/ \E pk \in SchemaIds, sep \in {<<",">>, <<";">>}, q \in Quotes : UpdateSchema("u1", pk, sep, q)
    \/ \E pk \in SchemaIds, d \in EditColumns : add_column("u1", pk, d)
    \/ \E pk \in SchemaIds, c \in ColumnIds, d \in EditColumns : update_column("u1", pk, c, d)
    \/ \E pk \in SchemaIds, c \in ColumnIds : delete_column("u1", pk, c)
    \/ TaskStep

SpecEdit == EditInit /\ [][EditNext]_vars

\* ------------------------------- the system with task messages redelivered
DupStep == \E id \in DatasetIds : DuplicateDelivery(id)

NextDup == Next \/ DupStep

SpecDup == Init /\ [][NextDup]_vars

\* ------------------------------------------------------------------ claims

\* C1: a retrieve of a dataset that is still processed=false never returns a
\* stream.
C1_NoStreamWhileUnprocessed ==
    (request.op = "retrieve" /\ ~response.processed) => response.status # 200

\* C2: no schema with zero columns exists in the store.
C2_SchemaHasColumn ==
    \A pk \in DOMAIN schemas : \E c \in DOMAIN columns : columns[c].schema = pk

\* C3: for a schema with at least one column, generate(count=N) yields
\* exactly N+1 rows, the header of column names in ascending order first, then
\* N data rows of one value per column in that column order.
ValueOfType(v, sid) ==
    CASE sid = INTEGER_SID -> v.t = "int"
      [] sid = TEXT_SID -> v.t = "text"
      [] sid = DATE_SID -> v.t = "date"
      [] OTHER -> v.t = "str"

C3_GenerateYieldsAllRows ==
    (genPc \in {"exhausted", "raised"} /\ Len(genTable) >= 1) =>
        /\ Len(genOut) = genCount + 1
        /\ Len(genCols) = Len(genTable)
        /\ \A i \in 1..(Len(genCols) - 1) : genCols[i].order <= genCols[i + 1].order
        /\ genOut[1] = [j \in 1..Len(genCols) |-> StrValue(genCols[j].name)]
        /\ \A i \in 2..Len(genOut) :
              /\ Len(genOut[i]) = Len(genCols)
              /\ \A j \in 1..Len(genCols) : ValueOfType(genOut[i][j], genCols[j].type)

\* C4 as stated: one job is attempted at most 5 times.
C4_AtMostFiveAttempts == \A id \in DOMAIN jobs : jobs[id].attempts <= 5

\* C4, amended: an attempt that raises is retried while fewer than max_retries
\* retries were made, so one job is attempted at most max_retries + 1 = 6
\* times; a job that failed made all 6 attempts, stays failed, and its dataset
\* stays processed=false.
C4_RetriesBounded ==
    /\ [](\A id \in DOMAIN jobs :
            /\ jobs[id].attempts <= max_retries + 1
            /\ jobs[id].retries <= max_retries
            /\ jobs[id].status = "failed" =>
                  /\ jobs[id].attempts = max_retries + 1
                  /\ id \in DOMAIN datasets => ~datasets[id].processed)
    /\ [][\A id \in DOMAIN jobs :
            /\ jobs[id].status = "failed" => jobs'[id] = jobs[id]
            /\ (jobs[id].status = "running" /\ jobs'[id].status = "queued") =>
                  /\ jobs'[id].retries = jobs[id].retries + 1
                  /\ jobs[id].attempts <= max_retries]_vars

C4_Witness ==
    \E id \in DOMAIN jobs :
        /\ jobs[id].status = "failed"
        /\ jobs[id].attempts = max_retries + 1
        /\ id \in DOMAIN datasets /\ ~datasets[id].processed

\* C5: a schema, add-column or update-column request whose Integer or Text
\* column has params missing, start or end missing or non-numeric, or
\* start >= end is rejected with a validation error and persists nothing.
NonNumeric(v) == v.t \in {"none", "str", "list"}

BadParams(attrs) ==
    /\ attrs.type \in {INTEGER_SID, TEXT_SID}
    /\ \/ attrs.params.t # "dict"
       \/ NonNumeric(attrs.params.start)
       \/ NonNumeric(attrs.params.end)
       \/ attrs.params.start.h >= attrs.params.end.h

BadParamsRequest(req) ==
    \/ /\ req.op \in {"add_column", "update_column"}
       /\ BadParams(req.data)
    \/ /\ req.op = "create_schema"
       /\ \E i \in 1..Len(req.data.columns) : BadParams(req.data.columns[i])

\* the route of the request exists for the requester
Resolves(req) ==
    CASE req.op = "add_column" -> own_schema(req.user, req.schema)
      [] req.op = "update_column" ->
            own_schema(req.user, req.schema) /\ column_of(req.schema, req.column)
      [] OTHER -> TRUE

C6_ValuesInHalfOpenRange ==
    \A i \in 2..Len(genOut) : \A j \in 1..Len(genCols) :
        genCols[j].type \in {INTEGER_SID, TEXT_SID} =>
            /\ genCols[j].params.start <= 2 * genOut[i][j].n
            /\ 2 * genOut[i][j].n < genCols[j].params.end

\* C7: a task that starts when its dataset no longer exists returns without
\* error: no file is written, no dataset changes, and it is not retried.
C7_MissingDatasetAborts ==
    [][\A id \in DOMAIN jobs :
          /\ (jobs[id].status = "queued" /\ id \notin DOMAIN datasets
                 /\ jobs'[id] # jobs[id]) =>
                /\ jobs'[id].status = "aborted"
                /\ jobs'[id].retries = jobs[id].retries
                /\ files' = files
                /\ datasets' = datasets
          /\ jobs[id].status = "aborted" => jobs'[id] = jobs[id]]_vars

C7_Witness ==
    \E id \in DOMAIN jobs :
        /\ jobs[id].status = "aborted"
        /\ jobs[id].attempts = 1
        /\ id \notin DOMAIN datasets
        /\ id \notin DOMAIN files

\* C8: a row encoded by the generation writer and decoded by the download
\* reader gives back the original field values, for every separator and
\* quote character.
C8_RoundTrip == csvPc = "done" => csvBack = <<csvRow>>

\* C9: the CSV of a dataset of N rows has N+1 lines, every field quoted with
\* the owning schema's quote character and separated by its separator, in
\* the stored file and in the streamed download alike.
AllQuoted(line, separator, string_character) ==
    LET rows == reader(<<line>>, separator[1], string_character)
    IN /\ Len(rows) = 1
       /\ writerow(rows[1], separator[1], string_character, QUOTE_ALL) = line

IsDelivered(lines, id) ==
    LET schema == schemas[datasets[id].schema]
    IN /\ Len(lines) = datasets[id].rows + 1
       /\ \A i \in 1..Len(lines) :
             AllQuoted(lines[i], schema.separator, schema.string_character)

C9_DeliveredCsvQuoted ==
    /\ \A id \in DOMAIN datasets :
          (datasets[id].processed /\ id \in DOMAIN files) => IsDelivered(files[id], id)
    /\ (request.op = "retrieve" /\ response.status = 200 /\ response.processed
           /\ request.dataset \in DOMAIN datasets) =>
          IsDelivered(response.body, request.dataset)

\* C10: processed becomes true only once the file holds every row the
\* generator yields, and the save changes nothing of the dataset but
\* processed, also when the row was changed in the store meanwhile.
C10_SaveOnlyProcessed ==
    [][\A id \in DOMAIN datasets :
          (id \in DOMAIN datasets' /\ ~datasets[id].processed /\ datasets'[id].processed) =>
              /\ datasets' = [datasets EXCEPT ![id].processed = TRUE]
              /\ id \in DOMAIN files
              /\ Len(files[id]) = jobs[id].rows + 1
              /\ jobs[id].emitted = jobs[id].rows + 1
              /\ files' = files]_vars

C10_Witness ==
    \E id \in DOMAIN datasets :
        /\ datasets[id].processed
        /\ jobs[id].status = "success"
        /\ id \in DOMAIN files
        /\ Len(files[id]) # datasets[id].rows + 1

\* C11: an add-column, update-column or delete-column request on a schema
\* owned by another user is answered not-found and leaves the columns of
\* that schema (and the whole columns table) unchanged.
ForeignColumnRequest(req) ==
    /\ req.op \in {"add_column", "update_column", "delete_column"}
    /\ req.schema \in DOMAIN schemas
    /\ schemas[req.schema].user # req.user

C11_ForeignColumnsNotFound ==
    [][ForeignColumnRequest(request') =>
          /\ response'.status = 404
          /\ columns' = columns
          /\ schemas' = schemas
          /\ nextColumnId' = nextColumnId]_vars

C11_Witness ==
    /\ ForeignColumnRequest(request)
    /\ request.op = "delete_column"
    /\ request.column \in DOMAIN columns
    /\ columns[request.column].schema = request.schema
    /\ response.status = 404

\* C12: the chunked write loop writes the rows the iterator emits, each once
\* and in emission order: the rows written are at every moment the emitted
\* rows up to the last full batch and what the batches hold in order, every
\* batch has at least one and at most chSize rows, and when the loop ends
\* normally the rows written are exactly the rows emitted.
RECURSIVE Flatten(_)
Flatten(batches) ==
    IF batches = <<>> THEN <<>> ELSE Head(batches) \o Flatten(Tail(batches))

C12_ChunkedWriteIsUnchunked ==
    /\ chFile = SubSeq(chRows, 1, Len(chFile))
    /\ chFile = Flatten(chBatches)
    /\ \A i \in 1..Len(chBatches) :
          /\ Len(chBatches[i]) >= 1
          /\ Len(chBatches[i]) <= chSize
          /\ i < Len(chBatches) => Len(chBatches[i]) = chSize
    /\ chPc = "done" => chFile = chRows

C12_Witness ==
    /\ chPc = "done"
    /\ Len(chRows) = MaxItems
    /\ chSize = MaxBatch
    /\ Len(chBatches) >= 2
    /\ Len(chBatches[Len(chBatches)]) < chSize
    /\ chFile = chRows

\* C13: generation uses the schema as the store holds it when the task runs:
\* the separator and quote character are those of the store when the task
\* loads its dataset, the columns are those of the store when the first rows
\* are drawn (their names make the header, in ascending order), and every
\* line written is encoded with that separator and quote character; what the
\* schema was at POST /sets/ plays no part.
ColumnsOfStore(cols, schema) ==
    LET ids == {c \in DOMAIN columns : columns[c].schema = schema}
    IN /\ Len(cols) = Cardinality(ids)
       /\ \A c \in ids :
             Cardinality({i \in 1..Len(cols) : cols[i] = columns[c]}) =
                Cardinality({x \in ids : columns[x] = columns[c]})
       /\ \A i \in 1..(Len(cols) - 1) : cols[i].order <= cols[i + 1].order

C13_SchemaReadAtExecution ==
    [][\A id \in DOMAIN jobs \cap DOMAIN jobs' :
          /\ (jobs[id].status = "queued" /\ jobs'[id].status = "running") =>
                /\ jobs'[id].separator = schemas[datasets[id].schema].separator
                /\ jobs'[id].string_character =
                      schemas[datasets[id].schema].string_character
          /\ (jobs[id].status = "running" /\ ~jobs[id].started /\ jobs'[id].started) =>
                /\ ColumnsOfStore(jobs'[id].cols, jobs[id].schema)
                /\ files'[id][1] =
                      writerow([i \in 1..Len(jobs'[id].cols) |-> jobs'[id].cols[i].name],
                               jobs[id].separator[1], jobs[id].string_character, QUOTE_ALL)
          /\ (jobs[id].status = "running" /\ id \in DOMAIN files'
                 /\ (id \notin DOMAIN files \/ files'[id] # files[id])) =>
                \A i \in 1..Len(files'[id]) :
                    AllQuoted(files'[id][i], jobs[id].separator, jobs[id].string_character)]_vars

C13_Witness ==
    \E id \in DOMAIN jobs \cap DOMAIN datasets \cap DOMAIN schemaAtCreate :
        LET now == stored_schema(datasets[id].schema)
            was == schemaAtCreate[id]
        IN /\ jobs[id].status = "success"
           /\ jobs[id].attempts = 1
           /\ was.string_character # now.string_character
           /\ Cardinality(was.columns) # Cardinality(now.columns)
           /\ AllQuoted(files[id][1], now.separator, now.string_character)
           /\ ~AllQuoted(files[id][1], was.separator, was.string_character)
           /\ Len(reader(<<files[id][1]>>, now.separator[1], now.string_character)[1]) =
                 Cardinality(now.columns)

\* C14: a dataset with processed=true has a backing file that holds the
\* complete output, the header and `rows` data rows.
C14_ProcessedHasCompleteFile ==
    \A id \in DOMAIN datasets :
        datasets[id].processed =>
            /\ id \in DOMAIN files
            /\ Len(files[id]) = datasets[id].rows + 1

\* C14, second part: processed never goes back from true to false.
C14_ProcessedStaysTrue ==
    [][\A id \in DOMAIN datasets \cap DOMAIN datasets' :
          datasets[id].processed => datasets'[id].processed]_vars

=============================================================================
